---- MODULE Spec2Model ----
(***************************************************************************)
(* Model of the Biochar Estimation API (src/main.py): the three estimate   *)
(* endpoints, the shared calculate function and the two module-level       *)
(* lookup tables.                                                          *)
(*                                                                         *)
(* Numbers.  A Python float is modelled as an exact rational n/d in lowest *)
(* terms, or one of the three non-finite IEEE values (inf, -inf, nan) that *)
(* a float-typed request field can carry.  Binary rounding error of finite *)
(* arithmetic is abstracted away; round(x, 2) is round-half-to-even on the *)
(* exact value.  None is a value of its own.                               *)
(***************************************************************************)
EXTENDS Integers, Sequences, FiniteSets, TLC

VARIABLES FEEDSTOCK_DATA, RESOLUTION_LOOKUP, slots, delivered

vars == <<FEEDSTOCK_DATA, RESOLUTION_LOOKUP, slots, delivered>>

----------------------------------------------------------------------------
(* Float values *)

RECURSIVE GCD(_, _)
GCD(a, b) == IF b = 0 THEN a ELSE GCD(b, a % b)

AbsInt(i) == IF i < 0 THEN -i ELSE i

\* The rational n/d (d # 0) in lowest terms with a positive denominator.
Fin(n, d) ==
    LET g == GCD(AbsInt(n), AbsInt(d))
        s == IF d < 0 THEN -1 ELSE 1
    IN  [k |-> "fin", n |-> (s * n) \div g, d |-> (s * d) \div g]

Num(i) == Fin(i, 1)
NaN == [k |-> "nan", n |-> 0, d |-> 1]
PosInf == [k |-> "inf", n |-> 1, d |-> 1]
NegInf == [k |-> "inf", n |-> -1, d |-> 1]
None == [k |-> "none", n |-> 0, d |-> 1]

\* Sign of a finite or infinite value: -1, 0 or 1.
Sgn(x) == IF x.n < 0 THEN -1 ELSE IF x.n > 0 THEN 1 ELSE 0

Inf(s) == IF s < 0 THEN NegInf ELSE PosInf

\* x * y on floats (the common factors are cancelled before multiplying).
Mul(x, y) ==
    IF x.k = "nan" \/ y.k = "nan" THEN NaN
    ELSE IF x.k = "inf" \/ y.k = "inf"
         THEN IF Sgn(x) * Sgn(y) = 0 THEN NaN ELSE Inf(Sgn(x) * Sgn(y))
         ELSE LET g == GCD(AbsInt(x.n), y.d)
                  h == GCD(AbsInt(y.n), x.d)
              IN  Fin((x.n \div g) * (y.n \div h), (x.d \div h) * (y.d \div g))

\* x + y on floats.
Add(x, y) ==
    IF x.k = "nan" \/ y.k = "nan" THEN NaN
    ELSE IF x.k = "inf"
         THEN IF y.k = "inf" /\ y.n # x.n THEN NaN ELSE x
         ELSE IF y.k = "inf" THEN y
              ELSE Fin(x.n * y.d + y.n * x.d, x.d * y.d)

\* x - y on floats.
Sub(x, y) == Add(x, IF y.k = "nan" THEN NaN ELSE [y EXCEPT !.n = -y.n])

\* x / y on floats, for y # 0 (the callers guard the division).
Div(x, y) ==
    IF x.k = "nan" \/ y.k = "nan" THEN NaN
    ELSE IF x.k = "inf"
         THEN IF y.k = "inf" THEN NaN ELSE Inf(Sgn(x) * Sgn(y))
         ELSE IF y.k = "inf" THEN Num(0)
              ELSE Mul(x, Fin(y.d, y.n))

\* x > 0 on floats: false for nan.
Gt0(x) == x.k \in {"fin", "inf"} /\ x.n > 0

\* abs(x).
Abs(x) == IF x.k = "nan" THEN NaN ELSE [x EXCEPT !.n = AbsInt(x.n)]

\* bool(x) of a float or None: None and 0.0 are falsy, everything else
\* (negative values, inf, nan) is truthy.
Truthy(x) == x.k # "none" /\ ~(x.k = "fin" /\ x.n = 0)

\* round(x, 2): the nearest multiple of 0.01, ties to the even one;
\* non-finite values are returned as they are.
Round2(x) ==
    IF x.k # "fin" THEN x
    ELSE LET m == x.n * 100
             q == m \div x.d
             r == m - q * x.d
             up == 2 * r > x.d \/ (2 * r = x.d /\ q % 2 = 1)
         IN  Fin(IF up THEN q + 1 ELSE q, 100)

----------------------------------------------------------------------------
(* Module-level tables *)

Feedstock(density, yield_factor, default_height) ==
    [density |-> density, yield_factor |-> yield_factor,
     default_height |-> default_height]

\* FEEDSTOCK_DATA as the module body builds it.
FeedstockTable ==
    [name \in {"Rice husk", "Wood chips", "Corn cobs", "Coconut shells",
               "Bamboo", "Sugarcane bagasse", "Groundnut shells", "Sludge"} |->
        CASE name = "Rice husk" -> Feedstock(Num(96), Fin(25, 100), Fin(2, 10))
          [] name = "Wood chips" -> Feedstock(Num(208), Fin(30, 100), Fin(3, 10))
          [] name = "Corn cobs" -> Feedstock(Num(190), Fin(28, 100), Fin(25, 100))
          [] name = "Coconut shells" -> Feedstock(Num(220), Fin(35, 100), Fin(3, 10))
          [] name = "Bamboo" -> Feedstock(Num(180), Fin(33, 100), Fin(25, 100))
          [] name = "Sugarcane bagasse" -> Feedstock(Num(140), Fin(22, 100), Fin(2, 10))
          [] name = "Groundnut shells" -> Feedstock(Num(130), Fin(26, 100), Fin(2, 10))
          [] name = "Sludge" -> Feedstock(Num(110), Fin(50, 100), Fin(15, 100))]

COVERAGE_FRACTION == Fin(5, 100)

\* RESOLUTION_LOOKUP as the module body builds it.
ResolutionTable ==
    [src \in {"Satellite", "Low Drone", "High Drone"} |->
        CASE src = "Satellite" -> Fin(4, 100)
          [] src = "Low Drone" -> Fin(6, 100)
          [] src = "High Drone" -> Fin(2, 100)]

----------------------------------------------------------------------------
(* Strings: a str is a sequence of one-character strings *)

Whitespace == {" ", "\n"}

\* The index of the first character of s that is in S, or 0.
FirstIn(s, S) ==
    IF \E i \in 1..Len(s) : s[i] \in S
    THEN CHOOSE i \in 1..Len(s) : s[i] \in S /\ \A j \in 1..(i - 1) : s[j] \notin S
    ELSE 0

\* The index of the first character of s from position i on that is not
\* in S, or Len(s) + 1.
RunEnd(s, i, S) ==
    IF \E j \in i..Len(s) : s[j] \notin S
    THEN CHOOSE j \in i..Len(s) : s[j] \notin S /\ \A m \in i..(j - 1) : s[m] \in S
    ELSE Len(s) + 1

\* str.strip(): without the leading and trailing whitespace.
Strip(s) ==
    LET a == RunEnd(s, 1, Whitespace)
    IN  IF a > Len(s) THEN <<>>
        ELSE LET b == CHOOSE j \in a..Len(s) :
                          s[j] \notin Whitespace
                          /\ \A m \in (j + 1)..Len(s) : s[m] \in Whitespace
             IN  SubSeq(s, a, b)

\* str.split(c): the pieces between the occurrences of the character c.
RECURSIVE StrSplit(_, _)
StrSplit(s, c) ==
    LET i == FirstIn(s, {c})
    IN  IF i = 0 THEN <<s>>
        ELSE <<SubSeq(s, 1, i - 1)>> \o StrSplit(SubSeq(s, i + 1, Len(s)), c)

\* re.split(r"[,\s]+", s): the pieces between the maximal runs of commas
\* and whitespace; a leading or trailing run leaves an empty piece.
Separators == {","} \cup Whitespace
RECURSIVE ReSplit(_)
ReSplit(s) ==
    LET i == FirstIn(s, Separators)
    IN  IF i = 0 THEN <<s>>
        ELSE <<SubSeq(s, 1, i - 1)>>
                 \o ReSplit(SubSeq(s, RunEnd(s, i, Separators), Len(s)))

DigitValue ==
    [c \in {"0", "1", "2", "3", "4", "5", "6", "7", "8", "9"} |->
        CASE c = "0" -> 0 [] c = "1" -> 1 [] c = "2" -> 2 [] c = "3" -> 3
          [] c = "4" -> 4 [] c = "5" -> 5 [] c = "6" -> 6 [] c = "7" -> 7
          [] c = "8" -> 8 [] c = "9" -> 9]

RECURSIVE Decimal(_)
Decimal(s) ==
    IF s = <<>> THEN 0
    ELSE 10 * Decimal(SubSeq(s, 1, Len(s) - 1)) + DigitValue[s[Len(s)]]

\* float(s) succeeds.  The model's texts are written with digits and the
\* letter x, so a token is a float exactly when it is a non-empty run of
\* digits; float("") and float("x") raise ValueError.
IsFloat(s) == s # <<>> /\ \A i \in 1..Len(s) : s[i] \in DOMAIN DigitValue

\* float(s), for IsFloat(s).
Float(s) == Num(Decimal(s))

----------------------------------------------------------------------------
(* Exceptions and responses *)

ValueError == [type |-> "ValueError", status_code |-> 0, detail |-> ""]
HTTPException(status_code, detail) ==
    [type |-> "HTTPException", status_code |-> status_code, detail |-> detail]

\* isinstance(exc, cls) for the classes the handlers name: ValueError and
\* HTTPException both derive from Exception.
IsInstance(exc, cls) == cls = "Exception" \/ exc.type = cls

NoResponse ==
    [status |-> 0, detail |-> "", biomass_mass_kg |-> None,
     biochar_yield_kg |-> None, application_rate_kg_per_ha |-> None]

\* The response FastAPI sends for a raised HTTPException.
ErrorResponse(exc) ==
    [NoResponse EXCEPT !.status = exc.status_code, !.detail = exc.detail]

\* {"status": "ok", "message": "Biochar Estimation API is running"}
HealthResponse ==
    [NoResponse EXCEPT !.status = 200, !.detail = "Biochar Estimation API is running"]

BiocharResponse(biomass_mass_kg, biochar_yield_kg, application_rate_kg_per_ha) ==
    [status |-> 200, detail |-> "", biomass_mass_kg |-> biomass_mass_kg,
     biochar_yield_kg |-> biochar_yield_kg,
     application_rate_kg_per_ha |-> application_rate_kg_per_ha]

----------------------------------------------------------------------------
(* calculate *)

\* A lookup that ignores the case of the name.
FeedstockLookupAnyCase(table, feedstock_type) ==
    LET key == IF feedstock_type = "wood chips" THEN "Wood chips" ELSE feedstock_type
    IN  IF key \in DOMAIN table
        THEN [found |-> TRUE, info |-> table[key]]
        ELSE [found |-> FALSE, info |-> Feedstock(None, None, None)]

\* feedstock_type in FEEDSTOCK_DATA, an exact key of the dict, and
\* feedstock_info = FEEDSTOCK_DATA[feedstock_type].
FeedstockLookup(table, feedstock_type) ==
    IF feedstock_type \in DOMAIN table
    THEN [found |-> TRUE, info |-> table[feedstock_type]]
    ELSE [found |-> FALSE, info |-> Feedstock(None, None, None)]

\* height_m = pile_height if pile_height else feedstock_info["default_height"]
HeightUsed(pile_height, feedstock_info) ==
    IF Truthy(pile_height) THEN pile_height ELSE feedstock_info.default_height

\* The rate taken per square metre: the division by area_m2 instead of
\* area_ha.
ApplicationRatePerM2(biochar_kg, area_ha) ==
    IF Gt0(area_ha) THEN Div(biochar_kg, Mul(area_ha, Num(10000))) ELSE Num(0)

\* biochar_kg / area_ha if area_ha > 0 else 0
ApplicationRate(biochar_kg, area_ha) ==
    IF Gt0(area_ha) THEN Div(biochar_kg, area_ha) ELSE Num(0)

\* calculate(feedstock_type, area_m2, pile_height) with FEEDSTOCK_DATA =
\* table: the height it used and the response it returns or the
\* HTTPException it raises.
CalculateResult(table, feedstock_type, area_m2, pile_height) ==
    IF ~FeedstockLookup(table, feedstock_type).found
    THEN [height_m |-> None,
          resp |-> ErrorResponse(HTTPException(400, "Invalid feedstock type"))]
    ELSE LET feedstock_info == FeedstockLookup(table, feedstock_type).info
             height_m == HeightUsed(pile_height, feedstock_info)
             density == feedstock_info.density
             yield_factor == feedstock_info.yield_factor
             area_ha == Div(area_m2, Num(10000))
             pile_area_m2 == Mul(area_m2, COVERAGE_FRACTION)
             volume_m3 == Mul(pile_area_m2, height_m)
             biomass_kg == Mul(volume_m3, density)
             biochar_kg == Mul(biomass_kg, yield_factor)
             application_rate_kg_per_ha == ApplicationRate(biochar_kg, area_ha)
         IN  [height_m |-> height_m,
              resp |-> BiocharResponse(Round2(biomass_kg), Round2(biochar_kg),
                                       Round2(application_rate_kg_per_ha))]

----------------------------------------------------------------------------
(* estimate_polygon: the try block *)

\* The lines the comprehension iterates over: the pieces of the stripped
\* text that are not blank.
CoordinateLines(coordinates) ==
    SelectSeq(StrSplit(Strip(coordinates), "\n"), LAMBDA line : Strip(line) # <<>>)

\* re.split(r"[,\s]+", line.strip())
LineTokens(line) == ReSplit(Strip(line))

\* tuple(map(float, ...)) of one line, when every token is a float.
LineTuple(line) ==
    LET toks == LineTokens(line) IN [i \in 1..Len(toks) |-> Float(toks[i])]

\* The check written as len(coords) < 2.
TooFewPointsOffByOne(coords) == Len(coords) < 2

\* len(coords) < 3
TooFewPoints(coords) == Len(coords) < 3

\* geod.polygon_area_perimeter(lons, lats)[0].  The library computes the
\* signed area on the WGS84 ellipsoid, positive for a counter-clockwise
\* ring; the model keeps the sign and the zero of that area and takes its
\* size from the planar formula over the same vertices, 1/2 of the sum of
\* lon[i] * lat[i+1] - lon[i+1] * lat[i] around the ring.
RECURSIVE RingSum(_, _, _)
RingSum(lons, lats, i) ==
    IF i > Len(lons) THEN Num(0)
    ELSE LET j == IF i = Len(lons) THEN 1 ELSE i + 1
         IN  Add(Sub(Mul(lons[i], lats[j]), Mul(lons[j], lats[i])),
                 RingSum(lons, lats, i + 1))
polygon_area(lons, lats) == Div(RingSum(lons, lats, 1), Num(2))

\* The body of the try block: the area it leaves in area_m2, or the
\* exception it raises.
PolygonTry(coordinates) ==
    LET lines == CoordinateLines(coordinates)
    IN  IF \E i \in 1..Len(lines) :
               \E t \in 1..Len(LineTokens(lines[i])) :
                   ~IsFloat(LineTokens(lines[i])[t])
        THEN [raised |-> TRUE, exc |-> ValueError, area_m2 |-> None]
        ELSE LET coords == [i \in 1..Len(lines) |-> LineTuple(lines[i])]
             IN  IF TooFewPoints(coords)
                 THEN [raised |-> TRUE, area_m2 |-> None,
                       exc |-> HTTPException(400, "At least 3 coordinate points required.")]
                 ELSE IF \E i \in 1..Len(coords) : Len(coords[i]) # 2
                      THEN [raised |-> TRUE, exc |-> ValueError, area_m2 |-> None]
                      ELSE LET lons == [i \in 1..Len(coords) |-> coords[i][2]]
                               lats == [i \in 1..Len(coords) |-> coords[i][1]]
                           IN  [raised |-> FALSE, exc |-> ValueError,
                                area_m2 |-> Abs(polygon_area(lons, lats))]

\* The class the except clause of estimate_polygon names.
PolygonExcept == "Exception"

\* estimate_polygon up to the call of calculate: the area it passes on, or
\* the HTTPException that leaves the handler.
PolygonArea(coordinates) ==
    LET t == PolygonTry(coordinates)
    IN  IF t.raised /\ IsInstance(t.exc, PolygonExcept)
        THEN [t EXCEPT !.exc = HTTPException(400,
                  "Invalid coordinate format. Use 'lat,lon' per line.")]
        ELSE t

----------------------------------------------------------------------------
(* estimate_direct and estimate_jpeg: the area *)

\* area_m2 = req.hectares * 10000
DirectArea(hectares) == Mul(hectares, Num(10000))

\* image_source not in RESOLUTION_LOOKUP
UnknownSource(table, image_source) == image_source \notin DOMAIN table

\* area_m2 = (width * resolution) * (height * resolution)
JpegArea(width, height, resolution) ==
    Mul(Mul(Num(width), resolution), Mul(Num(height), resolution))

----------------------------------------------------------------------------
(* Requests *)

MaxLines == 3
NSlots == 2

Slots == 1..NSlots

NoFile == [valid |-> FALSE, width |-> 0, height |-> 0]
ImageFile(width, height) == [valid |-> TRUE, width |-> width, height |-> height]

NoRequest ==
    [endpoint |-> "none", feedstock_type |-> "", pile_height |-> None,
     hectares |-> None, coordinates |-> <<>>, image_source |-> "", file |-> NoFile]

\* GET /
HealthRequest == [NoRequest EXCEPT !.endpoint = "health"]

DirectAreaRequest(feedstock_type, hectares, pile_height) ==
    [NoRequest EXCEPT !.endpoint = "direct", !.feedstock_type = feedstock_type,
                      !.hectares = hectares, !.pile_height = pile_height]

PolygonRequest(feedstock_type, coordinates, pile_height) ==
    [NoRequest EXCEPT !.endpoint = "polygon", !.feedstock_type = feedstock_type,
                      !.coordinates = coordinates, !.pile_height = pile_height]

JpegRequest(feedstock_type, pile_height, image_source, file) ==
    [NoRequest EXCEPT !.endpoint = "jpeg", !.feedstock_type = feedstock_type,
                      !.pile_height = pile_height, !.image_source = image_source,
                      !.file = file]

\* Feedstock names a caller sends: the eight keys, a key in another case
\* and a name that is no key.
FeedstockNames == DOMAIN FeedstockTable \cup {"wood chips", "Peat"}

\* pile_height: absent, zero, positive, negative, infinite.
PileHeights == {None, Num(0), Fin(1, 2), Fin(-1, 2), PosInf}

\* hectares: zero, positive, negative, infinite.
HectareValues == {Num(0), Num(1), Fin(5, 2), Num(-1), PosInf}

ImageSources == DOMAIN ResolutionTable \cup {"satellite", "Drone"}

\* Uploaded files: bytes PIL cannot open, and images of a few sizes.
Files == {NoFile, ImageFile(1, 1), ImageFile(3, 2), ImageFile(1000, 500)}

\* Lines of a coordinates text: three points written with the separators
\* the pattern accepts, a blank line, and lines that do not hold two floats.
CoordinateLineKinds ==
    { <<"0", ",", "0">>, <<"0", " ", "1">>, <<" ", "1", ",", " ", "0">>,
      <<" ">>, <<"x", ",", "1">>, <<"1", ",", "2", ",", "3">> }

RECURSIVE JoinLines(_)
JoinLines(ls) ==
    IF ls = <<>> THEN <<>>
    ELSE IF Len(ls) = 1 THEN ls[1]
         ELSE ls[1] \o <<"\n">> \o JoinLines(Tail(ls))

CoordinateTexts ==
    { JoinLines(ls) : ls \in UNION { [1..n -> CoordinateLineKinds] : n \in 0..MaxLines } }

Requests ==
    {HealthRequest}
    \cup { DirectAreaRequest(f, h, p) :
          f \in FeedstockNames, h \in HectareValues, p \in PileHeights }
    \cup { PolygonRequest(f, c, p) :
          f \in FeedstockNames, c \in CoordinateTexts, p \in PileHeights }
    \cup { JpegRequest(f, p, i, u) :
          f \in FeedstockNames, p \in PileHeights, i \in ImageSources, u \in Files }

\* The requests of the runs that serve several requests at once.
ProbeRequests ==
    { HealthRequest,
      DirectAreaRequest("Wood chips", Num(1), None),
      PolygonRequest("Sludge", JoinLines(<< <<"0", ",", "0">>, <<"0", " ", "1">> >>), None),
      JpegRequest("Wood chips", Fin(1, 2), "Satellite", ImageFile(1000, 500)),
      JpegRequest("Rice husk", None, "Drone", ImageFile(1000, 500)) }

----------------------------------------------------------------------------
(* State *)

\* A worker serving no request.
IdleSlot ==
    [pc |-> "idle", req |-> NoRequest, resolution |-> None, area_m2 |-> None,
     height_m |-> None, file_read |-> FALSE, called |-> FALSE, resp |-> NoResponse]

Init ==
    /\ FEEDSTOCK_DATA = FeedstockTable
    /\ RESOLUTION_LOOKUP = ResolutionTable
    /\ slots = [s \in Slots |-> IdleSlot]
    /\ delivered = {}

\* The handler of slot s ends with the HTTPException exc.
Raise(s, exc) ==
    slots' = [slots EXCEPT ![s].pc = "done", ![s].resp = ErrorResponse(exc)]

\* A request from R arrives and is routed to its handler.
Submit(s, R) ==
    /\ slots[s].pc = "idle"
    /\ \E req \in R : slots' = [slots EXCEPT ![s] = [IdleSlot EXCEPT !.pc = "recv", !.req = req]]
    /\ UNCHANGED <<FEEDSTOCK_DATA, RESOLUTION_LOOKUP, delivered>>

\* health_check.
HealthCheck(s) ==
    /\ slots[s].pc = "recv" /\ slots[s].req.endpoint = "health"
    /\ slots' = [slots EXCEPT ![s].pc = "done", ![s].resp = HealthResponse]
    /\ UNCHANGED <<FEEDSTOCK_DATA, RESOLUTION_LOOKUP, delivered>>

\* estimate_direct up to the call of calculate.
EstimateDirect(s) ==
    /\ slots[s].pc = "recv" /\ slots[s].req.endpoint = "direct"
    /\ slots' = [slots EXCEPT ![s].pc = "calc",
                              ![s].area_m2 = DirectArea(slots[s].req.hectares)]
    /\ UNCHANGED <<FEEDSTOCK_DATA, RESOLUTION_LOOKUP, delivered>>

\* estimate_polygon up to the call of calculate.
EstimatePolygon(s) ==
    /\ slots[s].pc = "recv" /\ slots[s].req.endpoint = "polygon"
    /\ LET a == PolygonArea(slots[s].req.coordinates)
       IN  IF a.raised THEN Raise(s, a.exc)
           ELSE slots' = [slots EXCEPT ![s].pc = "calc", ![s].area_m2 = a.area_m2]
    /\ UNCHANGED <<FEEDSTOCK_DATA, RESOLUTION_LOOKUP, delivered>>

\* estimate_jpeg with the upload read before the image source is looked at.
EstimateJpegReadFirst(s) ==
    /\ slots[s].pc = "recv" /\ slots[s].req.endpoint = "jpeg"
    /\ IF UnknownSource(RESOLUTION_LOOKUP, slots[s].req.image_source)
       THEN slots' = [slots EXCEPT ![s].pc = "done", ![s].file_read = TRUE,
                ![s].resp = ErrorResponse(HTTPException(400,
                    "Invalid image source. Choose Satellite, Low Drone, or High Drone."))]
       ELSE slots' = [slots EXCEPT ![s].pc = "read",
                ![s].resolution = RESOLUTION_LOOKUP[slots[s].req.image_source]]
    /\ UNCHANGED <<FEEDSTOCK_DATA, RESOLUTION_LOOKUP, delivered>>

\* estimate_jpeg up to its await: the image source is validated and the
\* resolution looked up.
EstimateJpeg(s) ==
    /\ slots[s].pc = "recv" /\ slots[s].req.endpoint = "jpeg"
    /\ IF UnknownSource(RESOLUTION_LOOKUP, slots[s].req.image_source)
       THEN Raise(s, HTTPException(400,
                "Invalid image source. Choose Satellite, Low Drone, or High Drone."))
       ELSE slots' = [slots EXCEPT ![s].pc = "read",
                ![s].resolution = RESOLUTION_LOOKUP[slots[s].req.image_source]]
    /\ UNCHANGED <<FEEDSTOCK_DATA, RESOLUTION_LOOKUP, delivered>>

\* estimate_jpeg from the await to the call of calculate: the file is read
\* and opened; any exception of the try block becomes the invalid-JPEG error.
EstimateJpegRead(s) ==
    /\ slots[s].pc = "read"
    /\ LET file == slots[s].req.file
           resolution == slots[s].resolution
       IN  IF ~file.valid
           THEN slots' = [slots EXCEPT ![s].pc = "done", ![s].file_read = TRUE,
                    ![s].resp = ErrorResponse(HTTPException(400, "Invalid JPEG image."))]
           ELSE slots' = [slots EXCEPT ![s].pc = "calc", ![s].file_read = TRUE,
                    ![s].area_m2 = JpegArea(file.width, file.height, resolution)]
    /\ UNCHANGED <<FEEDSTOCK_DATA, RESOLUTION_LOOKUP, delivered>>

\* calculate storing the height it used back into the shared catalog entry
\* (feedstock_info["default_height"] = height_m).
CalculateStoresHeight(s) ==
    /\ slots[s].pc = "calc"
    /\ LET r == CalculateResult(FEEDSTOCK_DATA, slots[s].req.feedstock_type,
                                slots[s].area_m2, slots[s].req.pile_height)
       IN  /\ slots' = [slots EXCEPT ![s].pc = "done", ![s].called = TRUE,
                                     ![s].height_m = r.height_m, ![s].resp = r.resp]
           /\ FEEDSTOCK_DATA' =
                  IF slots[s].req.feedstock_type \in DOMAIN FEEDSTOCK_DATA
                  THEN [FEEDSTOCK_DATA EXCEPT
                           ![slots[s].req.feedstock_type].default_height = r.height_m]
                  ELSE FEEDSTOCK_DATA
    /\ UNCHANGED <<RESOLUTION_LOOKUP, delivered>>

\* The call calculate(feedstock_type, area_m2, pile_height) that ends each
\* handler.
Calculate(s) ==
    /\ slots[s].pc = "calc"
    /\ LET r == CalculateResult(FEEDSTOCK_DATA, slots[s].req.feedstock_type,
                                slots[s].area_m2, slots[s].req.pile_height)
       IN  slots' = [slots EXCEPT ![s].pc = "done", ![s].called = TRUE,
                                  ![s].height_m = r.height_m, ![s].resp = r.resp]
    /\ UNCHANGED <<FEEDSTOCK_DATA, RESOLUTION_LOOKUP, delivered>>

\* The response is sent and the worker is free again; with log set, the
\* pair of request and response is kept in delivered.
Respond(s, log) ==
    /\ slots[s].pc = "done"
    /\ slots' = [slots EXCEPT ![s] = IdleSlot]
    /\ delivered' = IF log THEN delivered \cup {<<slots[s].req, slots[s].resp>>}
                    ELSE delivered
    /\ UNCHANGED <<FEEDSTOCK_DATA, RESOLUTION_LOOKUP>>

Handle(s) ==
    \/ HealthCheck(s)
    \/ EstimateDirect(s)
    \/ EstimatePolygon(s)
    \/ EstimateJpeg(s)
    \/ EstimateJpegRead(s)
    \/ Calculate(s)

\* One request at a time, drawn from all the requests.
Next == Submit(1, Requests) \/ Handle(1) \/ Respond(1, FALSE)

Spec == Init /\ [][Next]_vars

\* Several requests in flight, drawn from ProbeRequests, their responses
\* logged.
NextMulti == \E s \in Slots : Submit(s, ProbeRequests) \/ Handle(s) \/ Respond(s, TRUE)

SpecMulti == Init /\ [][NextMulti]_vars

----------------------------------------------------------------------------
(* Properties *)

\* x >= 0 and x <= y on floats: every comparison with nan is false.
Ge0(x) == x.k \in {"fin", "inf"} /\ x.n >= 0
Le(x, y) ==
    /\ x.k # "nan" /\ y.k # "nan"
    /\ IF x.k = "inf" THEN x.n < 0 \/ y = PosInf
       ELSE IF y.k = "inf" THEN y.n > 0
            ELSE x.n * y.d <= y.n * x.d

Done(s) == slots[s].pc = "done"
Returned(s) == Done(s) /\ slots[s].called /\ slots[s].resp.status = 200
Catalog(s) == FeedstockTable[slots[s].req.feedstock_type]
KnownName(s) == slots[s].req.feedstock_type \in DOMAIN FeedstockTable
InvalidFeedstock == ErrorResponse(HTTPException(400, "Invalid feedstock type"))
InvalidImageSource ==
    ErrorResponse(HTTPException(400,
        "Invalid image source. Choose Satellite, Low Drone, or High Drone."))
TooFewDetail == "At least 3 coordinate points required."
BadFormatDetail == "Invalid coordinate format. Use 'lat,lon' per line."

\* The non-blank lines of a coordinates text, and whether each of them
\* holds floats only / exactly two floats.
PointLines(s) == CoordinateLines(slots[s].req.coordinates)
LineIsFloats(line) ==
    \A t \in 1..Len(LineTokens(line)) : IsFloat(LineTokens(line)[t])
LineIsPair(line) == LineIsFloats(line) /\ Len(LineTokens(line)) = 2

\* C1: in calculate, for every known feedstock and every pile-height
\* override, the height used is the override if it is present and > 0, and
\* the feedstock's default_height otherwise.
C1_HeightIsPositiveOverrideOrDefault ==
    \A s \in Slots :
        (slots[s].called /\ KnownName(s)) =>
            slots[s].height_m =
                IF slots[s].req.pile_height.k # "none" /\ Gt0(slots[s].req.pile_height)
                THEN slots[s].req.pile_height
                ELSE Catalog(s).default_height

\* C2: every result calculate returns, through any endpoint, with a known
\* feedstock, an area >= 0 and any pile height, has
\* biochar_yield_kg <= biomass_mass_kg.
C2_YieldAtMostBiomass ==
    \A s \in Slots :
        (Returned(s) /\ Ge0(slots[s].area_m2)) =>
            Le(slots[s].resp.biochar_yield_kg, slots[s].resp.biomass_mass_kg)

\* C3: on each of the three paths the area_m2 passed to calculate is >= 0.
C3_AreaPassedIsNonNegative ==
    \A s \in Slots : slots[s].pc = "calc" => Ge0(slots[s].area_m2)

\* C4: for area_m2 = 0, a known feedstock and any pile height, calculate
\* returns 0 for the three outputs and raises nothing.
C4_ZeroAreaGivesZeros ==
    \A s \in Slots :
        (Done(s) /\ slots[s].called /\ KnownName(s) /\ slots[s].area_m2 = Num(0)) =>
            slots[s].resp = BiocharResponse(Num(0), Num(0), Num(0))

C5_Biomass(area_m2, h, info) == Mul(Mul(Mul(area_m2, Fin(5, 100)), h), info.density)
C5_Biochar(area_m2, h, info) == Mul(C5_Biomass(area_m2, h, info), info.yield_factor)
C5_Rate(area_m2, h, info) == Div(C5_Biochar(area_m2, h, info), Div(area_m2, Num(10000)))

\* C5: for a known feedstock, area_m2 > 0 and the height h calculate used,
\* the result is biomass = area_m2 x 0.05 x h x density, biochar = biomass x
\* yield_factor and rate = biochar / (area_m2 / 10000), each rounded to two
\* decimals; Wood chips with 1.0 hectare and the default height gives 31200,
\* 9360 and 9360.
C5_YieldFormulas ==
    \A s \in Slots :
        /\ (Returned(s) /\ Gt0(slots[s].area_m2)) =>
              LET a == slots[s].area_m2
                  h == slots[s].height_m
              IN  slots[s].resp =
                      BiocharResponse(Round2(C5_Biomass(a, h, Catalog(s))),
                                      Round2(C5_Biochar(a, h, Catalog(s))),
                                      Round2(C5_Rate(a, h, Catalog(s))))
        /\ (Done(s) /\ slots[s].req = DirectAreaRequest("Wood chips", Num(1), None)) =>
              slots[s].resp = BiocharResponse(Num(31200), Num(9360), Num(9360))

C5_Witness ==
    \E s \in Slots :
        /\ Returned(s)
        /\ slots[s].req = DirectAreaRequest("Wood chips", Num(1), None)
        /\ slots[s].area_m2 = Num(10000)
        /\ slots[s].resp.application_rate_kg_per_ha = Num(9360)

C6_UnknownSource(s) ==
    /\ slots[s].req.endpoint = "jpeg"
    /\ slots[s].req.image_source \notin {"Satellite", "Low Drone", "High Drone"}

\* C6: in estimate_jpeg a request whose image_source is not Satellite, Low
\* Drone or High Drone ends in the invalid-image-source 400 error, and its
\* file is never read: the handler never gets to the read or to calculate.
C6_UnknownSourceRejectedBeforeRead ==
    \A s \in Slots :
        C6_UnknownSource(s) =>
            /\ ~slots[s].file_read
            /\ ~slots[s].called
            /\ slots[s].pc \in {"recv", "done"}
            /\ Done(s) => slots[s].resp = InvalidImageSource

C6_Witness ==
    \E s \in Slots :
        /\ C6_UnknownSource(s) /\ Done(s)
        /\ slots[s].req.file.valid /\ KnownName(s)
        /\ slots[s].resp.status = 400

C7_AreaInputValid(s) ==
    LET req == slots[s].req
    IN  CASE req.endpoint = "direct" -> TRUE
          [] req.endpoint = "jpeg" ->
                 req.image_source \in {"Satellite", "Low Drone", "High Drone"}
                 /\ req.file.valid
          [] req.endpoint = "polygon" ->
                 Len(PointLines(s)) >= 3
                 /\ \A i \in 1..Len(PointLines(s)) : LineIsPair(PointLines(s)[i])
          [] OTHER -> FALSE

\* C7: on each endpoint a request whose feedstock_type is not an exact key
\* of the eight-entry catalog, and whose area input is valid, ends in the
\* 400 'Invalid feedstock type' error and never returns a result.
C7_UnknownFeedstockRejected ==
    \A s \in Slots :
        (slots[s].req.endpoint \in {"direct", "polygon", "jpeg"} /\ ~KnownName(s)) =>
            /\ slots[s].resp.status # 200
            /\ (Done(s) /\ C7_AreaInputValid(s)) => slots[s].resp = InvalidFeedstock

C7_Witness ==
    /\ \E s \in Slots :
          /\ Done(s) /\ slots[s].req.endpoint = "polygon" /\ C7_AreaInputValid(s)
          /\ slots[s].req.feedstock_type = "wood chips"
          /\ slots[s].called /\ slots[s].resp = InvalidFeedstock

C8_FewerThanThreePoints(s) ==
    slots[s].req.endpoint = "polygon" /\ Len(PointLines(s)) < 3

\* C8: in estimate_polygon a text with fewer than 3 points (an empty or
\* blank text included) ends in a 400 invalid-geometry error and never
\* reaches calculate, for every feedstock name and every pile height.
C8_FewPointsNeverReachCalculate ==
    \A s \in Slots :
        C8_FewerThanThreePoints(s) =>
            /\ slots[s].pc \in {"recv", "done"}
            /\ ~slots[s].called
            /\ Done(s) => /\ slots[s].resp.status = 400
                          /\ slots[s].resp.detail \in {TooFewDetail, BadFormatDetail}

C8_Witness ==
    \E s \in Slots :
        /\ C8_FewerThanThreePoints(s) /\ Done(s)
        /\ Len(PointLines(s)) = 2
        /\ \A i \in 1..2 : LineIsPair(PointLines(s)[i])
        /\ KnownName(s)
        /\ slots[s].resp.status = 400

\* C9: after any interleaving of requests to the four endpoints,
\* successful or failing, FEEDSTOCK_DATA and
\* RESOLUTION_LOOKUP are as the module built them, and a response depends
\* on its request alone: identical requests, finished together or one
\* after the other, get identical responses.
C9_TablesFixedResponsesRepeat ==
    /\ FEEDSTOCK_DATA = FeedstockTable
    /\ RESOLUTION_LOOKUP = ResolutionTable
    /\ \A s, t \in Slots :
          (Done(s) /\ Done(t) /\ slots[s].req = slots[t].req) =>
              slots[s].resp = slots[t].resp
    /\ \A s \in Slots : \A d \in delivered :
          (Done(s) /\ d[1] = slots[s].req) => d[2] = slots[s].resp
    /\ \A d, e \in delivered : d[1] = e[1] => d[2] = e[2]

C9_Witness ==
    \E s, t \in Slots :
        /\ s # t /\ Returned(s) /\ Returned(t)
        /\ slots[s].req = slots[t].req
        /\ slots[s].req.pile_height = None
        /\ \E d \in delivered : d[1] = slots[s].req
        /\ \E e \in delivered :
              /\ e[1].feedstock_type = slots[s].req.feedstock_type
              /\ e[1].pile_height # None
              /\ e[2].status = 200
        /\ \E f \in delivered : f[2].status = 400
        /\ \E g \in delivered : g[1] = HealthRequest

\* C10: in estimate_polygon, when every line parses but fewer than 3
\* points are given, the caller gets the 400 'At least 3 coordinate points
\* required.'; the 'Invalid coordinate format' detail is delivered only
\* when a line does not parse into exactly two floats (or the area
\* computation fails).
C10_TooFewPointsMessageDelivered ==
    \A s \in Slots :
        (Done(s) /\ slots[s].req.endpoint = "polygon") =>
            /\ ( /\ Len(PointLines(s)) < 3
                 /\ \A i \in 1..Len(PointLines(s)) : LineIsFloats(PointLines(s)[i]) )
               => slots[s].resp.detail = TooFewDetail
            /\ slots[s].resp.detail = BadFormatDetail
               => \E i \in 1..Len(PointLines(s)) : ~LineIsPair(PointLines(s)[i])

====
